---- MODULE Spec2Model ----
(***************************************************************************)
(* A model of ddbug's src/file/mod.rs: the File aggregate, the             *)
(* symbol-to-debuginfo reconciliation of File::normalize / get_symbol, the *)
(* address-range aggregation of File::ranges, the address index of         *)
(* FileHash::functions and the DiffList costs of Section and Symbol.       *)
(***************************************************************************)
EXTENDS Integers, Sequences, FiniteSets, TLC

(***************************************************************************)
(* Option and u64.                                                         *)
(***************************************************************************)

\* Option::None of an optional name.
None == "None"

\* Option::None of an optional u64 (no u64 is negative).
NoU64 == 0 - 1

\* The width of the model's u64, scaled down so that TLC can count to it.
U64Bits == 3

U64Modulus == 2 ^ U64Bits

U64Max == U64Modulus - 1

\* a + b leaves the u64 range.
AddOverflows(a, b) == a + b > U64Max

\* a + b as a build without overflow checks computes it.
WrappingAdd(a, b) == (a + b) % U64Modulus

\* The second option before the first.
OrSecond(a, b) == IF b # None THEN b ELSE a

\* Option::or
Or(a, b) == IF a # None THEN a ELSE b

(***************************************************************************)
(* The data model.                                                         *)
(***************************************************************************)

\* Range { begin, end }
Range(begin, end) == [begin |-> begin, end |-> end]

\* Function { name, linkage_name, low_pc, high_pc, size, ..Default::default() }
SymtabFunction(symbol, end) ==
    [name |-> symbol.name, linkage_name |-> symbol.name, symbol_name |-> None,
     low_pc |-> symbol.address, high_pc |-> end, size |-> symbol.size]

\* Variable { name, linkage_name, address, size, ..Default::default() }
SymtabVariable(symbol) ==
    [name |-> symbol.name, linkage_name |-> symbol.name, symbol_name |-> None,
     address |-> symbol.address, size |-> symbol.size]

\* The empty map (a map is a function from its keys; it is visited in key order).
EmptyMap == << >>

\* Unit::default() with the name set to <symtab>
SymtabUnit ==
    [name |-> "<symtab>", ranges |-> << >>, functions |-> EmptyMap,
     variables |-> EmptyMap, types |-> EmptyMap]

\* An insertion that leaves the value of a present key alone.
MapInsertIfAbsent(map, key, value) ==
    [k \in (DOMAIN map) \cup {key} |-> IF k \in DOMAIN map THEN map[k] ELSE value]

\* map.insert(key, value)
MapInsert(map, key, value) ==
    [k \in (DOMAIN map) \cup {key} |-> IF k = key THEN value ELSE map[k]]

\* The keys of a map in the order values()/values_mut()/iter() visit them.
RECURSIVE KeyOrder(_)
KeyOrder(keys) ==
    IF keys = {} THEN << >>
    ELSE LET k == CHOOSE x \in keys : \A y \in keys : x <= y
         IN  <<k>> \o KeyOrder(keys \ {k})

(***************************************************************************)
(* RangeList (range.rs), after the design: a list that push appends to and *)
(* sort orders by begin.                                                   *)
(***************************************************************************)

\* RangeList::push
RangeListPush(ranges, range) == Append(ranges, range)

\* The place of a range in a list sorted by begin, behind its equals.
RECURSIVE RangeInsert(_, _)
RangeInsert(sorted, range) ==
    IF sorted = << >> THEN <<range>>
    ELSE IF sorted[Len(sorted)].begin <= range.begin THEN Append(sorted, range)
    ELSE Append(RangeInsert(SubSeq(sorted, 1, Len(sorted) - 1), range), sorted[Len(sorted)])

\* RangeList::sort
RECURSIVE RangeListSort(_)
RangeListSort(ranges) ==
    IF ranges = << >> THEN << >>
    ELSE RangeInsert(RangeListSort(SubSeq(ranges, 1, Len(ranges) - 1)), ranges[Len(ranges)])

(***************************************************************************)
(* File::normalize and File::get_symbol.                                   *)
(***************************************************************************)

\* The place of a symbol in a list sorted by address, behind its equals.
RECURSIVE SymbolInsert(_, _)
SymbolInsert(sorted, symbol) ==
    IF sorted = << >> THEN <<symbol>>
    ELSE IF sorted[Len(sorted)].address <= symbol.address THEN Append(sorted, symbol)
    ELSE Append(SymbolInsert(SubSeq(sorted, 1, Len(sorted) - 1), symbol), sorted[Len(sorted)])

\* self.symbols.sort_by(|a, b| a.address.cmp(&b.address)): a stable sort.
RECURSIVE SortByAddress(_)
SortByAddress(syms) ==
    IF syms = << >> THEN << >>
    ELSE SymbolInsert(SortByAddress(SubSeq(syms, 1, Len(syms) - 1)), syms[Len(syms)])

\* A search that takes the first symbol for a hit when no symbol is at the address.
BinarySearchOrFirst(syms, address) ==
    IF \E i \in 1..Len(syms) : syms[i].address = address
    THEN CHOOSE i \in 1..Len(syms) : syms[i].address = address
    ELSE IF syms # << >> THEN 1 ELSE 0

\* symbols.binary_search_by(|x| x.address.cmp(&address)): some index of a symbol
\* at the address (which one is not specified), 0 for Err.
BinarySearch(syms, address) ==
    IF \E i \in 1..Len(syms) : syms[i].address = address
    THEN CHOOSE i \in 1..Len(syms) : syms[i].address = address
    ELSE 0

\* while index > 0 && symbols[index - 1].address == address { index -= 1; }
RECURSIVE WalkBack(_, _, _)
WalkBack(syms, index, address) ==
    IF index > 1 /\ syms[index - 1].address = address
    THEN WalkBack(syms, index - 1, address)
    ELSE index

\* for symbol in &symbols[index..]: the loop marks used_symbols[index], the slot
\* of the first symbol at the address, in every round.
RECURSIVE ScanSymbols(_, _, _, _, _, _)
ScanSymbols(syms, scan, index, address, name, pos) ==
    IF pos > Len(syms) \/ syms[pos].address # address THEN scan
    ELSE ScanSymbols(syms,
                     [used   |-> [scan.used EXCEPT ![index] = TRUE],
                      marked |-> scan.marked \cup {index},
                      found  |-> scan.found \/ syms[pos].name = name],
                     index, address, name, pos + 1)

\* File::get_symbol. symbol is the index of the symbol returned, 0 for None;
\* marked is the set of slots of used_symbols the call has written.
get_symbol(syms, used_symbols, address, name) ==
    LET hit == BinarySearch(syms, address)
    IN  IF hit = 0
        THEN [used |-> used_symbols, marked |-> {}, symbol |-> 0]
        ELSE LET index == WalkBack(syms, hit, address)
                 scan  == ScanSymbols(syms,
                                      [used |-> used_symbols, marked |-> {}, found |-> FALSE],
                                      index, address, name, index)
             IN  [used |-> scan.used, marked |-> scan.marked,
                  symbol |-> IF scan.found THEN 0 ELSE index]

\* The body of "for function in unit.functions.values_mut()" and of
\* "for variable in unit.variables.values_mut()": address is low_pc, resp. address.
\* st = [used, lookups]; the result adds the entity as the round leaves it.
NormalizeEntity(entity, address, syms, st, where) ==
    IF address = NoU64
    THEN [entity |-> entity, used |-> st.used, lookups |-> st.lookups]
    ELSE LET r == get_symbol(syms, st.used, address, Or(entity.linkage_name, entity.name))
         IN  [entity  |-> IF r.symbol # 0
                          THEN [entity EXCEPT !.symbol_name = syms[r.symbol].name]
                          ELSE entity,
              used    |-> r.used,
              lookups |-> Append(st.lookups,
                                 [unit |-> where[1], kind |-> where[2], key |-> where[3],
                                  marked |-> r.marked, symbol |-> r.symbol])]

\* for function in unit.functions.values_mut() { .. }
RECURSIVE NormalizeFunctions(_, _, _, _, _)
NormalizeFunctions(functions, keys, syms, st, u) ==
    IF keys = << >> THEN [map |-> functions, used |-> st.used, lookups |-> st.lookups]
    ELSE LET k == Head(keys)
             r == NormalizeEntity(functions[k], functions[k].low_pc, syms, st,
                                  <<u, "Function", k>>)
         IN  NormalizeFunctions([functions EXCEPT ![k] = r.entity], Tail(keys), syms,
                                [used |-> r.used, lookups |-> r.lookups], u)

\* for variable in unit.variables.values_mut() { .. }
RECURSIVE NormalizeVariables(_, _, _, _, _)
NormalizeVariables(variables, keys, syms, st, u) ==
    IF keys = << >> THEN [map |-> variables, used |-> st.used, lookups |-> st.lookups]
    ELSE LET k == Head(keys)
             r == NormalizeEntity(variables[k], variables[k].address, syms, st,
                                  <<u, "Variable", k>>)
         IN  NormalizeVariables([variables EXCEPT ![k] = r.entity], Tail(keys), syms,
                                [used |-> r.used, lookups |-> r.lookups], u)

\* for unit in &mut self.units { .. }: from unit u on.
RECURSIVE NormalizeUnits(_, _, _, _)
NormalizeUnits(us, syms, st, u) ==
    IF u > Len(us) THEN [units |-> us, used |-> st.used, lookups |-> st.lookups]
    ELSE LET f == NormalizeFunctions(us[u].functions, KeyOrder(DOMAIN us[u].functions),
                                     syms, st, u)
             v == NormalizeVariables(us[u].variables, KeyOrder(DOMAIN us[u].variables),
                                     syms, [used |-> f.used, lookups |-> f.lookups], u)
         IN  NormalizeUnits([us EXCEPT ![u] = [@ EXCEPT !.functions = f.map,
                                                        !.variables = v.map]],
                            syms, [used |-> v.used, lookups |-> v.lookups], u + 1)

\* The entry of the headless symbol at index under a 1-based count.
SymtabEntryOneBased(unit, symbol, index, end) ==
    LET pushed == [unit EXCEPT !.ranges = Append(@, Range(symbol.address, end))]
    IN  IF symbol.ty = "Variable"
        THEN [pushed EXCEPT !.variables =
                 [k \in (DOMAIN @) \cup {index + 1} |->
                     IF k = index + 1 THEN SymtabVariable(symbol) ELSE @[k]]]
        ELSE [pushed EXCEPT !.functions =
                 [k \in (DOMAIN @) \cup {index + 1} |->
                     IF k = index + 1 THEN SymtabFunction(symbol, end) ELSE @[k]]]

\* unit.ranges.push(Range { .. }); match symbol.ty { .. => unit.variables.insert(..),
\* .. => unit.functions.insert(..) }, with end the sum address + size.
SymtabEntry(unit, symbol, index, end) ==
    LET pushed == [unit EXCEPT !.ranges = RangeListPush(@, Range(symbol.address, end))]
    IN  IF symbol.ty = "Variable"
        THEN [pushed EXCEPT !.variables = MapInsert(@, index, SymtabVariable(symbol))]
        ELSE [pushed EXCEPT !.functions = MapInsert(@, index, SymtabFunction(symbol, end))]

\* for (index, (symbol, used)) in self.symbols.iter().zip(used_symbols.iter()).enumerate():
\* from the symbol at position pos on (its index is pos - 1). A build with overflow
\* checks panics at the first address + size that leaves the u64 range.
RECURSIVE SymtabFrom(_, _, _, _, _)
SymtabFrom(unit, syms, used_symbols, overflow_checks, pos) ==
    IF pos > Len(syms) THEN [unit |-> unit, panicked |-> FALSE]
    ELSE IF used_symbols[pos]
    THEN SymtabFrom(unit, syms, used_symbols, overflow_checks, pos + 1)
    ELSE IF overflow_checks /\ AddOverflows(syms[pos].address, syms[pos].size)
    THEN [unit |-> unit, panicked |-> TRUE]
    ELSE SymtabFrom(SymtabEntry(unit, syms[pos], pos - 1,
                                WrappingAdd(syms[pos].address, syms[pos].size)),
                    syms, used_symbols, overflow_checks, pos + 1)

(***************************************************************************)
(* File::ranges and Section::address.                                      *)
(***************************************************************************)

\* for section in &self.sections { if let Some(range) = section.address() { .. } }:
\* from section pos on. Section::address computes address + self.size; a build
\* with overflow checks panics when the sum leaves the u64 range.
RECURSIVE SectionRanges(_, _, _, _)
SectionRanges(ranges, sects, overflow_checks, pos) ==
    IF pos > Len(sects) THEN [ranges |-> ranges, panicked |-> FALSE]
    ELSE IF sects[pos].address = NoU64
    THEN SectionRanges(ranges, sects, overflow_checks, pos + 1)
    ELSE IF overflow_checks /\ AddOverflows(sects[pos].address, sects[pos].size)
    THEN [ranges |-> ranges, panicked |-> TRUE]
    ELSE SectionRanges(RangeListPush(ranges,
                                     Range(sects[pos].address,
                                           WrappingAdd(sects[pos].address, sects[pos].size))),
                       sects, overflow_checks, pos + 1)

\* for unit in &self.units { for range in unit.ranges.list() { ranges.push(*range); } }
RECURSIVE UnitRanges(_, _, _)
UnitRanges(ranges, us, u) ==
    IF u > Len(us) THEN ranges
    ELSE UnitRanges(ranges \o us[u].ranges, us, u + 1)

(***************************************************************************)
(* FileHash::functions                                                     *)
(***************************************************************************)

\* for function in unit.functions.values() { .. functions.insert(low_pc, function) }:
\* HashMap::insert replaces the value of a key that is present. A function is
\* referred to by its unit and its key.
RECURSIVE HashUnitFunctions(_, _, _, _)
HashUnitFunctions(hash, functions, keys, u) ==
    IF keys = << >> THEN hash
    ELSE LET k == Head(keys)
         IN  HashUnitFunctions(IF functions[k].low_pc # NoU64
                               THEN MapInsert(hash, functions[k].low_pc, <<u, k>>)
                               ELSE hash,
                               functions, Tail(keys), u)

\* for unit in &file.units { .. }
RECURSIVE HashFunctions(_, _, _)
HashFunctions(hash, us, u) ==
    IF u > Len(us) THEN hash
    ELSE HashFunctions(HashUnitFunctions(hash, us[u].functions,
                                         KeyOrder(DOMAIN us[u].functions), u),
                       us, u + 1)

(***************************************************************************)
(* DiffList for Section and Symbol, and the alignment of two lists         *)
(* (print.rs), after the design: an alignment of least total cost.         *)
(***************************************************************************)

\* <Section as DiffList>::step_cost
Section_step_cost == 1

\* A cost with the comparison the wrong way round.
Section_diff_cost_inverted(a, b) == IF a.name = b.name THEN 2 ELSE 0

\* <Section as DiffList>::diff_cost
Section_diff_cost(a, b) == IF a.name # b.name THEN 2 ELSE 0

\* <Symbol as DiffList>::step_cost
Symbol_step_cost == 1

\* <Symbol as DiffList>::diff_cost
Symbol_diff_cost(a, b) == IF a.name # b.name THEN 2 ELSE 0

Min(S) == CHOOSE x \in S : \A y \in S : x <= y

\* The ways on from (i, j): pair the two elements, or pass one of them by.
Steps(la, lb, step, cost, i, j) ==
    (IF i <= la /\ j <= lb THEN {[di |-> 1, dj |-> 1, cost |-> cost[i][j]]} ELSE {})
    \cup (IF i <= la THEN {[di |-> 1, dj |-> 0, cost |-> step]} ELSE {})
    \cup (IF j <= lb THEN {[di |-> 0, dj |-> 1, cost |-> step]} ELSE {})

\* The least total cost of aligning a[i..] with b[j..].
RECURSIVE MinCost(_, _, _, _, _, _)
MinCost(la, lb, step, cost, i, j) ==
    IF i > la /\ j > lb THEN 0
    ELSE Min({s.cost + MinCost(la, lb, step, cost, i + s.di, j + s.dj) :
              s \in Steps(la, lb, step, cost, i, j)})

\* An alignment of least total cost: pairs <<i, j>>, 0 for the side that is absent.
\* Among the steps of least cost the pairing comes first, then the left element.
RECURSIVE ShortestPath(_, _, _, _, _, _)
ShortestPath(la, lb, step, cost, i, j) ==
    IF i > la /\ j > lb THEN << >>
    ELSE LET best == MinCost(la, lb, step, cost, i, j)
             good == {s \in Steps(la, lb, step, cost, i, j) :
                         s.cost + MinCost(la, lb, step, cost, i + s.di, j + s.dj) = best}
             s    == CHOOSE x \in good : \A y \in good : x.di + x.dj >= y.di + y.dj
                                                         /\ (x.di + x.dj = y.di + y.dj => x.di >= y.di)
         IN  <<<<IF s.di = 1 THEN i ELSE 0, IF s.dj = 1 THEN j ELSE 0>>>>
             \o ShortestPath(la, lb, step, cost, i + s.di, j + s.dj)

\* DiffState::list for two lists, given the element type's costs as a table.
DiffStateList(la, lb, step, cost) ==
    [path |-> ShortestPath(la, lb, step, cost, 1, 1),
     cost |-> MinCost(la, lb, step, cost, 1, 1)]

(***************************************************************************)
(* The state.                                                              *)
(***************************************************************************)

VARIABLES
    symbols,         \* File::symbols
    units,           \* File::units
    sections,        \* File::sections
    pc,              \* "parsed", "normalized", the name of the operation that has
                     \* returned on the normalized File, or "panicked"
    used_symbols,    \* normalize's used_symbols, as the call left it
    lookups,         \* normalize's calls of get_symbol, in order
    parsed,          \* the symbols and units as the parser built them
    hash_functions,  \* the map FileHash::functions returned
    file_ranges,     \* the list File::ranges returned
    file_b,          \* the sections and symbols of the second File of a diff
    alignment        \* what the list diff made of the two lists

vars == <<symbols, units, sections, pc, used_symbols, lookups, parsed,
          hash_functions, file_ranges, file_b, alignment>>

(***************************************************************************)
(* The Files of the model.                                                 *)
(***************************************************************************)

MaxSymbols == 2

MaxUnits == 1

MaxHashUnits == 2

MaxSections == 2

MaxDiffLen == 2

SeqsUpTo(S, n) == UNION {[1..m -> S] : m \in 0..n}

Addresses == {1, U64Max}

\* Symbols that differ in name and address.
NamedSymbols ==
    [name : {None, "foo", "bar"}, ty : {"Function"}, address : Addresses, size : {1}]

\* Symbols that differ in kind, address and size.
SizedSymbols ==
    [name : {None, "bar"}, ty : {"Function", "Variable"}, address : Addresses, size : {0, 1}]

\* Unnamed, or with a name and a linkage name that differ.
EntityNames == {<<None, None>>, <<"bar", "foo">>}

ParsedFunctions ==
    {[name |-> n[1], linkage_name |-> n[2], symbol_name |-> None,
      low_pc |-> a, high_pc |-> NoU64, size |-> NoU64] :
        n \in EntityNames, a \in {NoU64} \cup Addresses}

ParsedVariables ==
    {[name |-> n[1], linkage_name |-> n[2], symbol_name |-> None,
      address |-> a, size |-> NoU64] :
        n \in EntityNames, a \in {NoU64, 1}}

ParsedUnit(functions, variables, ranges) ==
    [name |-> "cu", ranges |-> ranges, functions |-> functions,
     variables |-> variables, types |-> <<"int">>]

\* Units with at most one function and at most one variable.
ParsedUnits ==
    {ParsedUnit(f, v, << >>) :
        f \in SeqsUpTo(ParsedFunctions, 1), v \in SeqsUpTo(ParsedVariables, 1)}

\* Units whose one function, named as the symbols are, lies at the low address.
PlainUnits ==
    {ParsedUnit(<<f>>, << >>, << >>) :
        f \in {g \in ParsedFunctions : g.low_pc = 1 /\ g.name = "bar"}}

\* Units of up to two functions that differ in low_pc only.
HashUnits ==
    {ParsedUnit(f, << >>, << >>) :
        f \in SeqsUpTo({g \in ParsedFunctions : g.name = None}, 2)}

HashSymbols == {y \in SizedSymbols : y.name = "bar" /\ y.ty = "Function" /\ y.size = 0}

\* Units that differ in their ranges.
RangedUnits ==
    {ParsedUnit(<< >>, << >>, r) :
        r \in {<< >>, <<Range(1, 2)>>, <<Range(1, 2), Range(1, 2)>>, <<Range(0, 1), Range(2, 4)>>}}

Sections == [name : {".text"}, address : {NoU64, 1, U64Max}, size : {0, 1, 2}]

SectionsToDiff == [name : {None, ".text"}, address : {NoU64, 1}, size : {1}]

SymbolsToDiff == [name : {None, "foo"}, ty : {"Function"}, address : {1, 2}, size : {1}]

IsSortedByAddress(syms) ==
    \A i \in 1..Len(syms) - 1 : syms[i].address <= syms[i + 1].address

NoFileB == [sections |-> << >>, symbols |-> << >>]

NoAlignment == [path |-> << >>, cost |-> 0 - 1]

InitRest ==
    /\ pc = "parsed"
    /\ used_symbols = << >>
    /\ lookups = << >>
    /\ parsed = [symbols |-> symbols, units |-> units]
    /\ hash_functions = EmptyMap
    /\ file_ranges = << >>
    /\ alignment = NoAlignment

Init ==
    /\ \/ /\ symbols \in SeqsUpTo(NamedSymbols, MaxSymbols)
          /\ units \in SeqsUpTo(ParsedUnits, MaxUnits)
       \/ /\ symbols \in SeqsUpTo(SizedSymbols, MaxSymbols)
          /\ units \in SeqsUpTo(PlainUnits, MaxUnits)
    /\ sections = << >>
    /\ file_b = NoFileB
    /\ InitRest

InitHash ==
    /\ symbols \in SeqsUpTo(HashSymbols, MaxSymbols)
    /\ units \in SeqsUpTo(HashUnits, MaxHashUnits)
    /\ sections = << >>
    /\ file_b = NoFileB
    /\ InitRest

InitRanges ==
    /\ symbols \in SeqsUpTo(SizedSymbols, 1)
    /\ units \in SeqsUpTo(RangedUnits, 1)
    /\ sections \in SeqsUpTo(Sections, MaxSections)
    /\ file_b = NoFileB
    /\ InitRest

InitDiff ==
    /\ \/ /\ sections \in SeqsUpTo(SectionsToDiff, MaxDiffLen)
          /\ symbols = << >>
          /\ file_b \in [sections : SeqsUpTo(SectionsToDiff, MaxDiffLen), symbols : {<< >>}]
       \/ /\ sections = << >>
          /\ symbols \in SeqsUpTo(SymbolsToDiff, MaxDiffLen)
          /\ file_b \in [sections : {<< >>},
                         symbols : {y \in SeqsUpTo(SymbolsToDiff, MaxDiffLen) :
                                       IsSortedByAddress(y)}]
    /\ units = << >>
    /\ InitRest

(***************************************************************************)
(* The operations.                                                         *)
(***************************************************************************)

\* A push that drops a unit without ranges.
PushUnitUnlessEmpty(us, unit) == IF unit.ranges = << >> THEN us ELSE Append(us, unit)

\* self.units.push(unit)
PushUnit(us, unit) == Append(us, unit)

\* File::normalize
Normalize ==
    /\ pc = "parsed"
    /\ \E overflow_checks \in BOOLEAN :
        LET sorted == SortByAddress(symbols)
            named  == NormalizeUnits(units, sorted,
                                     [used |-> [i \in 1..Len(sorted) |-> FALSE],
                                      lookups |-> << >>], 1)
            symtab == SymtabFrom(SymtabUnit, sorted, named.used, overflow_checks, 1)
        IN  /\ symbols' = sorted
            /\ used_symbols' = named.used
            /\ lookups' = named.lookups
            /\ IF symtab.panicked
               THEN /\ units' = named.units
                    /\ pc' = "panicked"
               ELSE /\ units' = PushUnit(named.units,
                                         [symtab.unit EXCEPT !.ranges = RangeListSort(@)])
                    /\ pc' = "normalized"
    /\ UNCHANGED <<sections, parsed, hash_functions, file_ranges, file_b, alignment>>

\* FileHash::functions, on a normalized File
FileHashFunctions ==
    /\ pc = "normalized"
    /\ hash_functions' = HashFunctions(EmptyMap, units, 1)
    /\ pc' = "hashed"
    /\ UNCHANGED <<symbols, units, sections, used_symbols, lookups, parsed,
                   file_ranges, file_b, alignment>>

\* File::ranges, on a normalized File
Ranges ==
    /\ pc = "normalized"
    /\ \E overflow_checks \in BOOLEAN :
        LET of_sections == SectionRanges(<< >>, sections, overflow_checks, 1)
        IN  IF of_sections.panicked
            THEN /\ pc' = "panicked"
                 /\ UNCHANGED file_ranges
            ELSE /\ file_ranges' = RangeListSort(UnitRanges(of_sections.ranges, units, 1))
                 /\ pc' = "ranged"
    /\ UNCHANGED <<symbols, units, sections, used_symbols, lookups, parsed,
                   hash_functions, file_b, alignment>>

\* state.list("sections", w, &(), &*file_a.sections, &(), &*file_b.sections) of File::diff
DiffSectionLists ==
    /\ pc = "normalized"
    /\ alignment' =
          DiffStateList(Len(sections), Len(file_b.sections), Section_step_cost,
                        [i \in 1..Len(sections) |->
                            [j \in 1..Len(file_b.sections) |->
                                Section_diff_cost(sections[i], file_b.sections[j])]])
    /\ pc' = "sections diffed"
    /\ UNCHANGED <<symbols, units, sections, used_symbols, lookups, parsed,
                   hash_functions, file_ranges, file_b>>

\* The list diff of the symbols of two Files
DiffSymbolLists ==
    /\ pc = "normalized"
    /\ alignment' =
          DiffStateList(Len(symbols), Len(file_b.symbols), Symbol_step_cost,
                        [i \in 1..Len(symbols) |->
                            [j \in 1..Len(file_b.symbols) |->
                                Symbol_diff_cost(symbols[i], file_b.symbols[j])]])
    /\ pc' = "symbols diffed"
    /\ UNCHANGED <<symbols, units, sections, used_symbols, lookups, parsed,
                   hash_functions, file_ranges, file_b>>

Next == Normalize

Spec == Init /\ [][Next]_vars

NextHash == Normalize \/ FileHashFunctions

SpecHash == InitHash /\ [][NextHash]_vars

NextRanges == Normalize \/ Ranges

SpecRanges == InitRanges /\ [][NextRanges]_vars

NextDiff == Normalize \/ DiffSectionLists \/ DiffSymbolLists

SpecDiff == InitDiff /\ [][NextDiff]_vars

(***************************************************************************)
(* What the properties speak of.                                           *)
(***************************************************************************)

\* The functions and variables the parser built: <<unit, kind, key>>.
Places ==
    UNION {{<<u, "Function", k>> : k \in DOMAIN parsed.units[u].functions}
           \cup {<<u, "Variable", k>> : k \in DOMAIN parsed.units[u].variables} :
           u \in 1..Len(parsed.units)}

EntityAt(us, p) ==
    IF p[2] = "Function" THEN us[p[1]].functions[p[3]] ELSE us[p[1]].variables[p[3]]

\* low_pc of a function, address of a variable.
AddressAt(p) ==
    IF p[2] = "Function" THEN EntityAt(parsed.units, p).low_pc
    ELSE EntityAt(parsed.units, p).address

\* The linkage name if there is one, the name otherwise.
RequestedName(p) ==
    IF EntityAt(parsed.units, p).linkage_name = None
    THEN EntityAt(parsed.units, p).name
    ELSE EntityAt(parsed.units, p).linkage_name

\* The symbols, by their place in the file, that lie at an address.
FileSymbolsAt(a) == {j \in 1..Len(parsed.symbols) : parsed.symbols[j].address = a}

\* The symbols, by their place in the sorted list, that lie at an address.
SymbolsAt(a) == {i \in 1..Len(symbols) : symbols[i].address = a}

\* The calls of get_symbol made for an entity.
LookupsOf(p) ==
    {n \in DOMAIN lookups :
        lookups[n].unit = p[1] /\ lookups[n].kind = p[2] /\ lookups[n].key = p[3]}

\* The calls whose result was written to the entity's symbol_name.
WritesOf(p) == {n \in LookupsOf(p) : lookups[n].symbol # 0}

\* The calls whose result was the symbol at place i of the sorted list.
AttachedTo(i) == {n \in DOMAIN lookups : lookups[n].symbol = i}

\* The unit normalize has appended.
Symtab == units[Len(units)]

\* The number of synthesized entities that stand for the symbol at place i.
SynthesizedFor(i) ==
    (IF (i - 1) \in DOMAIN Symtab.functions THEN 1 ELSE 0)
    + (IF (i - 1) \in DOMAIN Symtab.variables THEN 1 ELSE 0)

HasSymtabUnit == pc = "normalized" /\ Len(units) > 0 /\ Symtab.name = "<symtab>"

Count(seq, x) == Cardinality({n \in DOMAIN seq : seq[n] = x})

SumOver(f) ==
    LET RECURSIVE Sum(_)
        Sum(n) == IF n = 0 THEN 0 ELSE f[n] + Sum(n - 1)
    IN  Sum(Len(f))

(***************************************************************************)
(* C1: after normalize every symbol is either attached to exactly one      *)
(* entity's symbol_name or stands as exactly one synthesized entity of the *)
(* <symtab> unit, never both, never neither.                               *)
(***************************************************************************)
C1_AttachedOnceOrSynthesizedOnce ==
    HasSymtabUnit =>
        \A i \in 1..Len(symbols) :
            \/ Cardinality(AttachedTo(i)) = 1 /\ SynthesizedFor(i) = 0
            \/ AttachedTo(i) = {} /\ SynthesizedFor(i) = 1

\* C1 as amended: after a normalize that returns, every symbol is either marked
\* used by a lookup, and then stands as no synthesized entity, or is not marked,
\* is attached to no entity and stands as exactly one synthesized entity; the name
\* of a used symbol is written to any number of entities, none included.
C1_UsedOrSynthesizedOnce ==
    HasSymtabUnit =>
        \A i \in 1..Len(symbols) :
            /\ used_symbols[i] <=> \E n \in DOMAIN lookups : i \in lookups[n].marked
            /\ used_symbols[i] => SynthesizedFor(i) = 0
            /\ ~used_symbols[i] => SynthesizedFor(i) = 1 /\ AttachedTo(i) = {}

\* A used symbol attached to nothing, a used symbol attached twice over, and a
\* symbol that is synthesized.
C1_Witness ==
    /\ HasSymtabUnit
    /\ \E i \in 1..Len(symbols) :
          used_symbols[i] /\ SynthesizedFor(i) = 0 /\ Cardinality(AttachedTo(i)) # 1
    /\ \E i \in 1..Len(symbols) : ~used_symbols[i] /\ SynthesizedFor(i) = 1

(***************************************************************************)
(* C2: for a function or variable with a known address at which symbols    *)
(* lie, with n its linkage name or else its name: if one of these symbols  *)
(* is named n, symbol_name is not written; if none is, symbol_name is the  *)
(* name of the first of them in the sorted list, which is the first of     *)
(* them in the file.                                                       *)
(***************************************************************************)
C2_NameMatchPrecedence ==
    pc # "parsed" =>
        \A p \in Places :
            LET a  == AddressAt(p)
                at == FileSymbolsAt(a)
            IN  (a # NoU64 /\ at # {}) =>
                    IF \E j \in at : parsed.symbols[j].name = RequestedName(p)
                    THEN /\ WritesOf(p) = {}
                         /\ EntityAt(units, p).symbol_name
                               = EntityAt(parsed.units, p).symbol_name
                    ELSE /\ Cardinality(WritesOf(p)) = 1
                         /\ \A n \in WritesOf(p) :
                               /\ lookups[n].symbol = Min(SymbolsAt(a))
                               /\ symbols[lookups[n].symbol] = parsed.symbols[Min(at)]
                         /\ EntityAt(units, p).symbol_name = parsed.symbols[Min(at)].name

\* An entity with linkage name foo and the symbols foo and bar at its address, not
\* written, beside an unnamed entity that has got the name bar.
C2_Witness ==
    /\ pc = "normalized"
    /\ \E p \in Places :
          /\ RequestedName(p) = "foo"
          /\ {parsed.symbols[j].name : j \in FileSymbolsAt(AddressAt(p))} = {"foo", "bar"}
          /\ WritesOf(p) = {}
    /\ \E p \in Places :
          /\ RequestedName(p) = None
          /\ WritesOf(p) # {}
          /\ EntityAt(units, p).symbol_name = "bar"

(***************************************************************************)
(* C3: after normalize the <symtab> unit holds, for every symbol not       *)
(* marked used, one entity of the symbol's kind under the symbol's index,  *)
(* named as the symbol, with low_pc = address and high_pc = address + size *)
(* (a variable: address and size), and the range [address, address+size);  *)
(* it holds no entity for a used symbol, and as many ranges as entities.   *)
(***************************************************************************)
C3_SyntheticUnit ==
    HasSymtabUnit =>
        /\ \A i \in 1..Len(symbols) :
              LET y == symbols[i]
              IN  IF used_symbols[i]
                  THEN SynthesizedFor(i) = 0
                  ELSE /\ SynthesizedFor(i) = 1
                       /\ y.ty = "Function" =>
                             /\ (i - 1) \in DOMAIN Symtab.functions
                             /\ Symtab.functions[i - 1].name = y.name
                             /\ Symtab.functions[i - 1].linkage_name = y.name
                             /\ Symtab.functions[i - 1].low_pc = y.address
                             /\ Symtab.functions[i - 1].high_pc = y.address + y.size
                       /\ y.ty = "Variable" =>
                             /\ (i - 1) \in DOMAIN Symtab.variables
                             /\ Symtab.variables[i - 1].name = y.name
                             /\ Symtab.variables[i - 1].linkage_name = y.name
                             /\ Symtab.variables[i - 1].address = y.address
                             /\ Symtab.variables[i - 1].size = y.size
                       /\ \E n \in DOMAIN Symtab.ranges :
                             Symtab.ranges[n] = Range(y.address, y.address + y.size)
        /\ Len(Symtab.ranges)
              = Cardinality(DOMAIN Symtab.functions) + Cardinality(DOMAIN Symtab.variables)

(***************************************************************************)
(* C4: of the functions that share a low_pc, the map of FileHash::functions *)
(* keeps the first in the order of the visit (units in order, each unit's  *)
(* functions in map order); a function with no low_pc is not in the map.   *)
(***************************************************************************)
FunctionRefs ==
    UNION {{<<u, k>> : k \in DOMAIN units[u].functions} : u \in 1..Len(units)}

LowPcOf(r) == units[r[1]].functions[r[2]].low_pc

VisitedBefore(r, q) == r[1] < q[1] \/ (r[1] = q[1] /\ r[2] < q[2])

HashedAddresses == {LowPcOf(r) : r \in FunctionRefs} \ {NoU64}

SameButSymbolName(m, old) ==
    /\ DOMAIN m = DOMAIN old
    /\ \A k \in DOMAIN old :
          [m[k] EXCEPT !.symbol_name = None] = [old[k] EXCEPT !.symbol_name = None]

AddressedSections == {n \in DOMAIN sections : sections[n].address # NoU64}

SectionRangeAt(n) == Range(sections[n].address, sections[n].address + sections[n].size)

C6_CoverageAggregation ==
    pc = "ranged" =>
        /\ \A n \in 1..Len(file_ranges) - 1 : file_ranges[n].begin <= file_ranges[n + 1].begin
        /\ Len(file_ranges)
              = Cardinality(AddressedSections) + SumOver([u \in DOMAIN units |-> Len(units[u].ranges)])
        /\ \A r \in {file_ranges[n] : n \in DOMAIN file_ranges}
                    \cup {SectionRangeAt(n) : n \in AddressedSections} :
              Count(file_ranges, r)
                 = Cardinality({n \in AddressedSections : SectionRangeAt(n) = r})
                   + SumOver([u \in DOMAIN units |-> Count(units[u].ranges, r)])

(***************************************************************************)
(* C7: the list diff of the sections, or of the symbols, of a File with an *)
(* identical copy pairs the i-th element with the i-th, adds and removes   *)
(* nothing, and costs nothing.                                             *)
(***************************************************************************)
Diagonal(n) == [i \in 1..n |-> <<i, i>>]

C7_DiffStability ==
    /\ (pc = "sections diffed" /\ file_b.sections = sections) =>
          alignment = [path |-> Diagonal(Len(sections)), cost |-> 0]
    /\ (pc = "symbols diffed" /\ file_b.symbols = symbols) =>
          alignment = [path |-> Diagonal(Len(symbols)), cost |-> 0]

\* Two sections of one name at two addresses, diffed with their copy.
C7_Witness ==
    /\ pc = "sections diffed"
    /\ file_b.sections = sections
    /\ Len(sections) = 2
    /\ sections[1].name = sections[2].name
    /\ sections[1].address # sections[2].address
    /\ alignment.path = <<<<1, 1>>, <<2, 2>>>>

(***************************************************************************)
(* C8: normalize returns on every input, and every range it has built for  *)
(* a headless symbol, and every synthesized function, ends no lower than   *)
(* it begins.                                                              *)
(***************************************************************************)
C8_NoOverflow ==
    /\ pc # "panicked"
    /\ HasSymtabUnit =>
          /\ \A n \in DOMAIN Symtab.ranges : Symtab.ranges[n].end >= Symtab.ranges[n].begin
          /\ \A k \in DOMAIN Symtab.functions :
                Symtab.functions[k].high_pc >= Symtab.functions[k].low_pc

(***************************************************************************)
(* C9: a lookup at an address that two or more symbols share marks all of  *)
(* them used, so that none of them is synthesized.                         *)
(***************************************************************************)
C9_AllSharingSymbolsUsed ==
    pc # "parsed" =>
        \A p \in Places : \A n \in LookupsOf(p) :
            LET at == SymbolsAt(AddressAt(p))
            IN  Cardinality(at) >= 2 =>
                    /\ at \subseteq lookups[n].marked
                    /\ \A i \in at : used_symbols[i]
                    /\ HasSymtabUnit => \A i \in at : SynthesizedFor(i) = 0

(***************************************************************************)
(* C10: in one normalize the symbol_name of an entity is written at most   *)
(* once, and only if a symbol lies at its address; an entity without       *)
(* address, or with no symbol at its address, keeps its symbol_name and    *)
(* has no symbol marked used.                                              *)
(***************************************************************************)
C10_WrittenAtMostOnce ==
    pc # "parsed" =>
        \A p \in Places :
            /\ Cardinality(LookupsOf(p)) <= 1
            /\ WritesOf(p) # {} => SymbolsAt(AddressAt(p)) # {}
            /\ WritesOf(p) = {} =>
                  EntityAt(units, p).symbol_name = EntityAt(parsed.units, p).symbol_name
            /\ (AddressAt(p) = NoU64 \/ SymbolsAt(AddressAt(p)) = {}) =>
                  /\ WritesOf(p) = {}
                  /\ \A n \in LookupsOf(p) : lookups[n].marked = {}
                  /\ AddressAt(p) = NoU64 => LookupsOf(p) = {}

\* An entity without address and an entity at an address where no symbol lies,
\* both left alone, beside symbols none of which is used.
C10_Witness ==
    /\ pc = "normalized"
    /\ Len(symbols) > 0
    /\ \A i \in 1..Len(symbols) : ~used_symbols[i]
    /\ \E p \in Places : AddressAt(p) = NoU64
    /\ \E p \in Places : AddressAt(p) # NoU64 /\ SymbolsAt(AddressAt(p)) = {}

====
